---------------------------- MODULE Spec2Model ----------------------------
(***************************************************************************)
(* A model of the two provider command-line tools                          *)
(*   src/lib/scripts/hetzner_cloud.py   (Hetzner Cloud: servers, images)   *)
(*   src/lib/scripts/proxmox_api.py     (Proxmox VE: qemu VMs, lxc)        *)
(* Each tool invocation is a process that issues provider calls one at a   *)
(* time; the provider's state (servers, snapshot images) is shared between *)
(* invocations and changes on its own between two calls.                   *)
(***************************************************************************)
EXTENDS Integers, Sequences, FiniteSets, TLC

(***************************************************************************)
(* Bounds of the model.                                                    *)
(***************************************************************************)
\* Snapshots the provider holds at most (create_snapshot is not invoked beyond).
MaxImages == 2
\* Provider/transport errors injected over a behaviour at most.
MaxFaults == 1
\* Largest timeout, in seconds, handed to wait_snapshot.
MaxTimeout == 15

(***************************************************************************)
(* Program constants.                                                      *)
(***************************************************************************)
\* time.sleep(10) in wait_for_snapshot
PollInterval == 10

\* Concurrent tool invocations (operating-system processes).
Procs == {1, 2}
\* Server ids the provider knows, and the ids invocations ask for.
KnownServers == {1, 2}
RequestedServers == {1, 2, 3}
\* The description invocation p hands to create_snapshot (callers name their
\* snapshots apart); a string is the tuple of its characters.
Description(p) == <<"a", "-", IF p = 1 THEN "1" ELSE "2">>
\* Messages a provider or transport error may carry (str(e)).
\* The Proxmox guests: their ids and kinds.
VmIds == {100, 101}
VmKind(vmid) == IF vmid = 100 THEN "qemu" ELSE "lxc"
\* The vm_type arguments asked for.
VmTypes == {"qemu", "lxc", "kvm"}
\* The statuses of a Hetzner server and of a Proxmox guest.
ServerStatuses == {"running", "starting", "off"}
VmStatuses == {"running", "stopped"}

ProviderMsgs == {"api error"}
NotFoundMsg == "not found"
\* Timeouts handed to wait_for_snapshot (int(sys.argv[4]) accepts any integer).
Timeouts == {0 - 5, 0, MaxTimeout}
\* Image.status values of the provider.
ImageStatuses == {"creating", "available", "unavailable"}

(***************************************************************************)
(* Python values.  None is the empty tuple and a present value a 1-tuple,  *)
(* so that "x is None" and truthiness are decidable on every value.        *)
(***************************************************************************)
None == <<>>
Some(x) == <<x>>

\* A Python string built by a literal or an f-string: its literal text and
\* the interpolated values (n an integer, s a status or kind, d a
\* description; 0, "" and <<>> when unused).
FStr(text, n, s) == [text |-> text, n |-> n, s |-> s, d |-> <<>>]
FDesc(text, d) == [text |-> text, n |-> 0, s |-> "", d |-> d]
\* str(e): the provider's message as it stands.
Str(m) == FStr(m, 0, "")

\* Truthiness of an optional string: None and the empty string are falsy.
\* (Every f-string of the programs has non-empty literal text.)
TruthyStr(e) == e # None /\ e[1].text # ""

\* Truthiness of an optional dict: every dict the programs build is non-empty.
TruthyDict(d) == d # None

(***************************************************************************)
(* json_response of hetzner_cloud.py.  The timestamp is the wall clock's   *)
(* and is kept abstract.                                                   *)
(***************************************************************************)
json_response(success, data, error) ==
    LET keys == {"success", "timestamp"}
                  \cup (IF TruthyDict(data) THEN {"data"} ELSE {})
                  \cup (IF TruthyStr(error) THEN {"error"} ELSE {})
    IN  [k \in keys |->
            CASE k = "success"   -> success
              [] k = "timestamp" -> "iso8601"
              [] k = "data"      -> data[1]
              [] k = "error"     -> error[1]]

VARIABLES
    images,        \* provider: the account's snapshot images, in listing order
    servers,       \* provider: the status of each Hetzner server
    vms,           \* provider: the kind and status of each Proxmox guest
    nextId,        \* provider: the id the next created image gets
    faults,        \* the provider calls that a provider/transport error struck
    pc,            \* per invocation: where it is
    cmd,           \* per invocation: the command it runs
    args,          \* per invocation: the command's arguments
    check_result,  \* per invocation: create_snapshot's check_result
    elapsed,       \* per invocation: time.time() - start_time of wait_for_snapshot
    result,        \* per invocation: the response it printed
    calls,         \* per invocation: the provider calls it issued, by kind
    caught         \* per invocation: the message of the exception that a provider
                   \* call raised and the operation's except clause caught

vars == <<images, servers, vms, nextId, faults, pc, cmd, args, check_result, elapsed,
          result, calls, caught>>

\* Every server and every guest running.
ServersUp == [s \in KnownServers |-> "running"]
GuestsUp == [v \in VmIds |-> "running"]

NoArgs == [none |-> TRUE]
NoCheck == [pending |-> TRUE]
NoResult == [pending |-> TRUE]
NoCalls ==
    [create_image |-> 0, get_image |-> 0, power_on |-> 0, start_post |-> 0,
     shutdown |-> 0, stop_post |-> 0, shutdown_post |-> 0, delete_image |-> 0,
     operation |-> 0]

\* The outcome of one provider call: a returned value or a raised exception.
Returned(v) == [raised |-> FALSE, fault |-> FALSE, value |-> v, msg |-> ""]
Raised(m) == [raised |-> TRUE, fault |-> FALSE, value |-> None, msg |-> m]
Failed(m) == [raised |-> TRUE, fault |-> TRUE, value |-> None, msg |-> m]

\* A provider or transport error may strike any call while faults remain.
FaultOutcomes == IF Len(faults) < MaxFaults THEN {Failed(m) : m \in ProviderMsgs} ELSE {}

\* The faults after a call of kind `call` ended with outcome o.
Struck(call, o) == IF o.fault THEN Append(faults, call) ELSE faults

\* client.images.get_all(type="snapshot")
GetAllOutcomes == {Returned(images)} \cup FaultOutcomes

\* The indices of the images with id `id`.
ImageIndex(imgs, id) == {i \in 1..Len(imgs) : imgs[i].id = id}

\* client.images.get_by_id(id): the image, or for an unknown id either None
\* (the branch the programs test) or the provider's not-found error.
GetImageOutcomes(id) ==
    (IF ImageIndex(images, id) # {}
        THEN {Returned(Some(images[CHOOSE i \in ImageIndex(images, id) : TRUE]))}
        ELSE {Returned(None), Raised(NotFoundMsg)})
    \cup FaultOutcomes

\* client.servers.get_by_id(id)
GetServerOutcomes(id) ==
    (IF id \in KnownServers
        THEN {Returned(Some([id |-> id, status |-> servers[id]]))}
        ELSE {Returned(None), Raised(NotFoundMsg)})
    \cup FaultOutcomes

Min(S) == CHOOSE x \in S : \A y \in S : x <= y

(***************************************************************************)
(* check_snapshot_in_progress, on the outcome of images.get_all.           *)
(***************************************************************************)
\* Variant: server_id compared as the command line's string, which no
\* created_from.id equals.
check_snapshot_in_progress_str_id(listing, server_id) ==
    IF listing.raised
    THEN [in_progress |-> FALSE, error |-> Str(listing.msg)]
    ELSE [in_progress |-> FALSE]

\* Variant: the status of the server's snapshot is not looked at.
check_snapshot_in_progress_any_status(listing, server_id) ==
    IF listing.raised
    THEN [in_progress |-> FALSE, error |-> Str(listing.msg)]
    ELSE LET imgs == listing.value
             hits == {i \in 1..Len(imgs) :
                        /\ imgs[i].created_from # None
                        /\ imgs[i].created_from[1] = server_id}
         IN  IF hits # {}
             THEN LET img == imgs[Min(hits)]
                  IN  [in_progress |-> TRUE,
                       snapshot_id |-> img.id,
                       description |-> img.description,
                       status      |-> img.status]
             ELSE [in_progress |-> FALSE]

\* Variant: a failed check reports a snapshot in progress.
check_snapshot_in_progress_fail_closed(listing, server_id) ==
    IF listing.raised
    THEN [in_progress |-> TRUE, snapshot_id |-> 0, description |-> <<>>,
          status |-> "creating", error |-> Str(listing.msg)]
    ELSE LET imgs == listing.value
             hits == {i \in 1..Len(imgs) :
                        /\ imgs[i].created_from # None
                        /\ imgs[i].created_from[1] = server_id
                        /\ imgs[i].status = "creating"}
         IN  IF hits # {}
             THEN LET img == imgs[Min(hits)]
                  IN  [in_progress |-> TRUE,
                       snapshot_id |-> img.id,
                       description |-> img.description,
                       status      |-> img.status]
             ELSE [in_progress |-> FALSE]

check_snapshot_in_progress(listing, server_id) ==
    IF listing.raised
    THEN [in_progress |-> FALSE, error |-> Str(listing.msg)]
    ELSE LET imgs == listing.value
             hits == {i \in 1..Len(imgs) :
                        /\ imgs[i].created_from # None
                        /\ imgs[i].created_from[1] = server_id
                        /\ imgs[i].status = "creating"}
         IN  IF hits # {}
             THEN LET img == imgs[Min(hits)]
                  IN  [in_progress |-> TRUE,
                       snapshot_id |-> img.id,
                       description |-> img.description,
                       status      |-> img.status]
             ELSE [in_progress |-> FALSE]

(***************************************************************************)
(* create_snapshot (Hetzner).  The size metrics, creation time and action  *)
(* id of the response are the provider's and are left out.                 *)
(***************************************************************************)
\* Variant: the check's result is not acted on.
attaches_never(cr) == FALSE

\* if check_result['in_progress']
attaches(cr) == cr.in_progress

\* The response of the branch "a snapshot is already being created".
create_snapshot_existing(cr) ==
    json_response(TRUE,
        Some([snapshot_id         |-> cr.snapshot_id,
              description         |-> cr.description,
              status              |-> cr.status,
              already_in_progress |-> TRUE,
              message |-> FDesc("Snapshot already in progress: {}. Will wait for it to complete.",
                                cr.description)]),
        None)

\* The response after server.create_image returned `image`.
create_snapshot_created(image) ==
    json_response(TRUE,
        Some([snapshot_id         |-> image.id,
              description         |-> image.description,
              status              |-> image.status,
              already_in_progress |-> FALSE,
              message             |-> Str("Snapshot creation initiated")]),
        None)

\* The provider's new image for server.create_image(description, type="snapshot").
NewImage(server_id, description) ==
    [id           |-> nextId,
     created_from |-> Some(server_id),
     status       |-> "creating",
     description  |-> description]

\* An invocation ends: it prints its response.
Finish(p, response) ==
    /\ result' = [result EXCEPT ![p] = response]
    /\ pc' = [pc EXCEPT ![p] = "done"]

\* create_snapshot mid-flight: past the dispatch, before its response.
CreateSteps == {"cs_get_server", "cs_check", "cs_create"}

\* Snapshots held plus those that running create_snapshot invocations may add.
Planned == Len(images) + Cardinality({q \in Procs : pc[q] \in CreateSteps})

\* main: "create_snapshot <api_token> <server_id> <description>"
InvokeCreateSnapshot(p, server_id, description) ==
    /\ pc[p] \in {"idle", "done"}
    /\ Planned < MaxImages
    /\ pc' = [pc EXCEPT ![p] = "cs_get_server"]
    /\ cmd' = [cmd EXCEPT ![p] = "create_snapshot"]
    /\ args' = [args EXCEPT ![p] = [server_id |-> server_id, description |-> description]]
    /\ check_result' = [check_result EXCEPT ![p] = NoCheck]
    /\ elapsed' = [elapsed EXCEPT ![p] = 0]
    /\ result' = [result EXCEPT ![p] = NoResult]
    /\ calls' = [calls EXCEPT ![p] = NoCalls]
    /\ UNCHANGED <<caught, images, nextId, faults, servers, vms>>

\* create_snapshot: server = client.servers.get_by_id(server_id)
CsGetServer(p) ==
    /\ pc[p] = "cs_get_server"
    /\ \E o \in GetServerOutcomes(args[p].server_id) :
        /\ faults' = Struck("servers.get_by_id", o)
        /\ IF o.raised
           THEN Finish(p, json_response(FALSE, None, Some(Str(o.msg))))
           ELSE IF o.value = None
           THEN Finish(p, json_response(FALSE, None,
                            Some(FStr("Server {} not found", args[p].server_id, ""))))
           ELSE /\ pc' = [pc EXCEPT ![p] = "cs_check"]
                /\ UNCHANGED result
    /\ UNCHANGED <<caught, images, nextId, cmd, args, check_result, elapsed, calls, servers, vms>>

\* create_snapshot: check_result = check_snapshot_in_progress(...), and the
\* return of the existing snapshot when one is in progress.
CsCheck(p) ==
    /\ pc[p] = "cs_check"
    /\ \E o \in GetAllOutcomes :
        LET cr == check_snapshot_in_progress(o, args[p].server_id)
        IN  /\ faults' = Struck("images.get_all", o)
            /\ check_result' = [check_result EXCEPT ![p] = cr]
            /\ IF attaches(cr)
               THEN Finish(p, create_snapshot_existing(cr))
               ELSE /\ pc' = [pc EXCEPT ![p] = "cs_create"]
                    /\ UNCHANGED result
    /\ UNCHANGED <<caught, images, nextId, cmd, args, elapsed, calls, servers, vms>>

\* create_snapshot: response = server.create_image(...), and the return.
CsCreate(p) ==
    /\ pc[p] = "cs_create"
    /\ calls' = [calls EXCEPT ![p].create_image = @ + 1]
    /\ \/ LET image == NewImage(args[p].server_id, args[p].description)
          IN  /\ images' = Append(images, image)
              /\ nextId' = nextId + 1
              /\ Finish(p, create_snapshot_created(image))
              /\ UNCHANGED faults
       \/ \E o \in FaultOutcomes :
              /\ faults' = Struck("server.create_image", o)
              /\ Finish(p, json_response(FALSE, None, Some(Str(o.msg))))
              /\ UNCHANGED <<images, nextId>>
    /\ UNCHANGED <<caught, cmd, args, check_result, elapsed, servers, vms>>

(***************************************************************************)
(* wait_for_snapshot (Hetzner).  Time is counted in whole seconds and moves *)
(* in the sleeps; the size metrics of the response are left out.           *)
(***************************************************************************)
\* Variant: every status other than creating counts as completed.
wait_body_not_creating(o, snapshot_id, now) ==
    IF o.raised
    THEN Some(json_response(FALSE, None, Some(Str(o.msg))))
    ELSE IF o.value = None
    THEN Some(json_response(FALSE, None, Some(FStr("Snapshot {} not found", snapshot_id, ""))))
    ELSE LET image == o.value[1]
         IN  IF image.status # "creating"
             THEN Some(json_response(TRUE,
                        Some([snapshot_id      |-> image.id,
                              description      |-> image.description,
                              status           |-> "available",
                              duration_seconds |-> now,
                              message          |-> Str("Snapshot completed successfully")]),
                        None))
             ELSE None

\* The body of the while loop on the outcome of images.get_by_id, `now`
\* being int(time.time() - start_time): the response it returns, or None when
\* it sleeps and loops.
wait_body(o, snapshot_id, now) ==
    IF o.raised
    THEN Some(json_response(FALSE, None, Some(Str(o.msg))))
    ELSE IF o.value = None
    THEN Some(json_response(FALSE, None, Some(FStr("Snapshot {} not found", snapshot_id, ""))))
    ELSE LET image == o.value[1]
         IN  IF image.status = "available"
             THEN Some(json_response(TRUE,
                        Some([snapshot_id      |-> image.id,
                              description      |-> image.description,
                              status           |-> "available",
                              duration_seconds |-> now,
                              message          |-> Str("Snapshot completed successfully")]),
                        None))
             ELSE IF image.status = "creating"
             THEN None
             ELSE Some(json_response(FALSE, None,
                        Some(FStr("Unexpected snapshot status: {}", 0, image.status))))

\* Variant: the message names the default timeout, not the one in force.
wait_timed_out_default(timeout) ==
    json_response(FALSE, None,
        Some(FStr("Snapshot creation timed out after {} seconds", 900, "")))

\* The return after the loop.
wait_timed_out(timeout) ==
    json_response(FALSE, None,
        Some(FStr("Snapshot creation timed out after {} seconds", timeout, "")))

\* Variant: the comparison the wrong way round.
wait_continues_inverted(now, timeout) == timeout < now

\* The loop's test: while (time.time() - start_time) < timeout
wait_continues(now, timeout) == now < timeout

\* main: "wait_snapshot <api_token> <snapshot_id> [timeout]"
InvokeWaitSnapshot(p, snapshot_id, timeout) ==
    /\ pc[p] \in {"idle", "done"}
    /\ pc' = [pc EXCEPT ![p] = "ws_loop"]
    /\ cmd' = [cmd EXCEPT ![p] = "wait_snapshot"]
    /\ args' = [args EXCEPT ![p] = [snapshot_id |-> snapshot_id, timeout |-> timeout]]
    /\ check_result' = [check_result EXCEPT ![p] = NoCheck]
    /\ elapsed' = [elapsed EXCEPT ![p] = 0]
    /\ result' = [result EXCEPT ![p] = NoResult]
    /\ calls' = [calls EXCEPT ![p] = NoCalls]
    /\ UNCHANGED <<caught, images, nextId, faults, servers, vms>>

\* Variant: the wait cancels the snapshot when it gives up.
WsIterCancelling(p) ==
    /\ pc[p] = "ws_loop"
    /\ IF wait_continues(elapsed[p], args[p].timeout)
       THEN \E o \in GetImageOutcomes(args[p].snapshot_id) :
                LET r == wait_body(o, args[p].snapshot_id, elapsed[p])
                IN  /\ faults' = Struck("images.get_by_id", o)
                    /\ calls' = [calls EXCEPT ![p].get_image = @ + 1]
                    /\ IF r = None
                       THEN /\ elapsed' = [elapsed EXCEPT ![p] = @ + PollInterval]
                            /\ UNCHANGED <<pc, result>>
                       ELSE /\ Finish(p, r[1])
                            /\ UNCHANGED elapsed
                    /\ UNCHANGED images
       ELSE /\ Finish(p, wait_timed_out(args[p].timeout))
            /\ images' = SelectSeq(images, LAMBDA img : img.id # args[p].snapshot_id)
            /\ UNCHANGED <<faults, elapsed, calls>>
    /\ UNCHANGED <<caught, nextId, cmd, args, check_result, servers, vms>>

\* wait_for_snapshot: the loop's test and one pass of its body (the poll, and
\* the sleep when the snapshot is still being created), or the return after it.
WsIter(p) ==
    /\ pc[p] = "ws_loop"
    /\ IF wait_continues(elapsed[p], args[p].timeout)
       THEN \E o \in GetImageOutcomes(args[p].snapshot_id) :
                LET r == wait_body(o, args[p].snapshot_id, elapsed[p])
                IN  /\ faults' = Struck("images.get_by_id", o)
                    /\ calls' = [calls EXCEPT ![p].get_image = @ + 1]
                    /\ IF r = None
                       THEN /\ elapsed' = [elapsed EXCEPT ![p] = @ + PollInterval]
                            /\ UNCHANGED <<pc, result>>
                       ELSE /\ Finish(p, r[1])
                            /\ UNCHANGED elapsed
       ELSE /\ Finish(p, wait_timed_out(args[p].timeout))
            /\ UNCHANGED <<faults, elapsed, calls>>
    /\ UNCHANGED <<caught, images, nextId, cmd, args, check_result, servers, vms>>

(***************************************************************************)
(* list_snapshots (Hetzner).  The creation time and size metrics of a      *)
(* snapshot's entry are left out.                                          *)
(***************************************************************************)
\* Truthiness of an optional integer: None and 0 are falsy.
TruthyInt(x) == x # None /\ x[1] # 0

\* Truthiness of an optional string given by its characters.
TruthyName(x) == x # None /\ x[1] # <<>>

\* str.startswith
StartsWith(str, prefix) ==
    Len(str) >= Len(prefix) /\ SubSeq(str, 1, Len(prefix)) = prefix

\* snapshot_info of the loop
snapshot_info(img) ==
    [snapshot_id     |-> img.id,
     description     |-> img.description,
     status          |-> img.status,
     created_from_id |-> IF img.created_from # None THEN Some(img.created_from[1]) ELSE None]

\* The entries of the images of imgs, in the listing's order.
Entries(imgs) == [i \in 1..Len(imgs) |-> snapshot_info(imgs[i])]

\* Strategy 1 of the loop; int(server_id) of an integer is that integer.
matches_server_id(img, server_id) ==
    TruthyInt(server_id) /\ img.created_from # None /\ img.created_from[1] = server_id[1]

\* Strategy 2 of the loop: description.startswith(f"{server_name}-")
matches_prefix(img, server_name) ==
    TruthyName(server_name) /\ StartsWith(img.description, server_name[1] \o <<"-">>)

\* Variant: the hostname prefix is tried before the server id.
prioritize_prefix_first(for_server, with_prefix, unfiltered, all, server_name, server_id) ==
    IF TruthyName(server_name) /\ with_prefix # <<>>
    THEN with_prefix
    ELSE IF TruthyInt(server_id) /\ for_server # <<>>
    THEN for_server
    ELSE IF TruthyName(server_name) \/ TruthyInt(server_id)
    THEN all
    ELSE unfiltered

\* Variant: without the fallback to all of the project's snapshots.
prioritize_no_fallback(for_server, with_prefix, unfiltered, all, server_name, server_id) ==
    IF TruthyInt(server_id) /\ for_server # <<>>
    THEN for_server
    ELSE IF TruthyName(server_name) /\ with_prefix # <<>>
    THEN with_prefix
    ELSE unfiltered

\* "Prioritize filtering strategies": the list returned, `unfiltered` being
\* what the loop appended to snapshots.
prioritize(for_server, with_prefix, unfiltered, all, server_name, server_id) ==
    IF TruthyInt(server_id) /\ for_server # <<>>
    THEN for_server
    ELSE IF TruthyName(server_name) /\ with_prefix # <<>>
    THEN with_prefix
    ELSE IF TruthyName(server_name) \/ TruthyInt(server_id)
    THEN all
    ELSE unfiltered

\* The response's filter_used.
filter_used(for_server, with_prefix, server_name, server_id) ==
    IF TruthyInt(server_id) /\ for_server # <<>>
    THEN "server_id"
    ELSE IF TruthyName(server_name) /\ with_prefix # <<>>
    THEN "hostname_prefix"
    ELSE "all_project"

\* list_snapshots on the outcome of images.get_all.
list_snapshots(listing, server_name, server_id) ==
    IF listing.raised
    THEN json_response(FALSE, None, Some(Str(listing.msg)))
    ELSE LET imgs == listing.value
             filtering == TruthyName(server_name) \/ TruthyInt(server_id)
             all == Entries(imgs)
             for_server == Entries(SelectSeq(imgs, LAMBDA img : matches_server_id(img, server_id)))
             with_prefix == Entries(SelectSeq(imgs, LAMBDA img : matches_prefix(img, server_name)))
             unfiltered == IF filtering THEN <<>> ELSE all
             snapshots == prioritize(for_server, with_prefix, unfiltered, all,
                                     server_name, server_id)
         IN  json_response(TRUE,
                Some([snapshots   |-> snapshots,
                      count       |-> Len(snapshots),
                      filter_used |-> filter_used(for_server, with_prefix,
                                                  server_name, server_id)]),
                None)

\* A call of list_snapshots(api_token, server_name, server_id).
InvokeListSnapshots(p, server_name, server_id) ==
    /\ pc[p] \in {"idle", "done"}
    /\ pc' = [pc EXCEPT ![p] = "ls_list"]
    /\ cmd' = [cmd EXCEPT ![p] = "list_snapshots"]
    /\ args' = [args EXCEPT ![p] = [server_name |-> server_name, server_id |-> server_id]]
    /\ check_result' = [check_result EXCEPT ![p] = NoCheck]
    /\ elapsed' = [elapsed EXCEPT ![p] = 0]
    /\ result' = [result EXCEPT ![p] = NoResult]
    /\ calls' = [calls EXCEPT ![p] = NoCalls]
    /\ UNCHANGED <<caught, images, nextId, faults, servers, vms>>

\* list_snapshots: images = client.images.get_all(type="snapshot"), and the rest.
LsList(p) ==
    /\ pc[p] = "ls_list"
    /\ \E o \in GetAllOutcomes :
        /\ faults' = Struck("images.get_all", o)
        /\ Finish(p, list_snapshots(o, args[p].server_name, args[p].server_id))
    /\ UNCHANGED <<caught, images, nextId, cmd, args, check_result, elapsed, calls, servers, vms>>

(***************************************************************************)
(* start_server (Hetzner).  The server's name and public address in the    *)
(* response are left out.  A fault on a power call is logged under the     *)
(* API resource the call went to.                                          *)
(***************************************************************************)
\* Variant: the status is compared with the wrong constant.
already_running_status_on(server) == server.status = "on"

\* server.status == Server.STATUS_RUNNING
already_running(server) == server.status = "running"

\* The response for a server that is already running.
start_server_noop(server) ==
    json_response(TRUE,
        Some([server_id |-> server.id,
              status    |-> "running",
              message   |-> Str("Server is already running")]),
        None)

\* The response after the power-on action finished.
start_server_started(server) ==
    json_response(TRUE,
        Some([server_id |-> server.id,
              status    |-> server.status,
              message   |-> Str("Server started successfully")]),
        None)

\* main: "start <api_token> <server_id>"
InvokeStartServer(p, server_id) ==
    /\ pc[p] \in {"idle", "done"}
    /\ pc' = [pc EXCEPT ![p] = "ss_get"]
    /\ cmd' = [cmd EXCEPT ![p] = "start"]
    /\ args' = [args EXCEPT ![p] = [server_id |-> server_id]]
    /\ check_result' = [check_result EXCEPT ![p] = NoCheck]
    /\ elapsed' = [elapsed EXCEPT ![p] = 0]
    /\ result' = [result EXCEPT ![p] = NoResult]
    /\ calls' = [calls EXCEPT ![p] = NoCalls]
    /\ UNCHANGED <<caught, images, nextId, faults, servers, vms>>

\* start_server: server = client.servers.get_by_id(server_id), and the return
\* for a missing or an already running server.
SsGet(p) ==
    /\ pc[p] = "ss_get"
    /\ \E o \in GetServerOutcomes(args[p].server_id) :
        /\ faults' = Struck("servers", o)
        /\ IF o.raised
           THEN Finish(p, json_response(FALSE, None, Some(Str(o.msg))))
           ELSE IF o.value = None
           THEN Finish(p, json_response(FALSE, None,
                            Some(FStr("Server {} not found", args[p].server_id, ""))))
           ELSE IF already_running(o.value[1])
           THEN Finish(p, start_server_noop(o.value[1]))
           ELSE /\ pc' = [pc EXCEPT ![p] = "ss_power_on"]
                /\ UNCHANGED result
    /\ UNCHANGED <<caught, images, nextId, cmd, args, check_result, elapsed, calls, servers, vms>>

\* start_server: action = server.power_on()
SsPowerOn(p) ==
    /\ pc[p] = "ss_power_on"
    /\ calls' = [calls EXCEPT ![p].power_on = @ + 1]
    /\ \/ /\ servers' = [servers EXCEPT ![args[p].server_id] =
                            IF @ = "running" THEN @ ELSE "starting"]
          /\ pc' = [pc EXCEPT ![p] = "ss_wait"]
          /\ UNCHANGED <<faults, result>>
       \/ \E o \in FaultOutcomes :
              /\ faults' = Struck("servers", o)
              /\ Finish(p, json_response(FALSE, None, Some(Str(o.msg))))
              /\ UNCHANGED servers
    /\ UNCHANGED <<caught, images, nextId, cmd, args, check_result, elapsed, vms>>

\* start_server: action.wait_until_finished(max_retries=60), which returns
\* once the server has left `starting` and raises when the retries run out.
SsWait(p) ==
    /\ pc[p] = "ss_wait"
    /\ \/ /\ servers[args[p].server_id] # "starting"
          /\ pc' = [pc EXCEPT ![p] = "ss_refresh"]
          /\ UNCHANGED <<faults, result>>
       \/ \E o \in FaultOutcomes :
              /\ faults' = Struck("servers", o)
              /\ Finish(p, json_response(FALSE, None, Some(Str(o.msg))))
    /\ UNCHANGED <<caught, images, nextId, cmd, args, check_result, elapsed, calls, servers, vms>>

\* start_server: server = client.servers.get_by_id(server_id)  # Refresh
SsRefresh(p) ==
    /\ pc[p] = "ss_refresh"
    /\ \E o \in GetServerOutcomes(args[p].server_id) :
        /\ faults' = Struck("servers", o)
        /\ IF o.raised \/ o.value = None
           THEN Finish(p, json_response(FALSE, None, Some(Str(o.msg))))
           ELSE Finish(p, start_server_started(o.value[1]))
    /\ UNCHANGED <<caught, images, nextId, cmd, args, check_result, elapsed, calls, servers, vms>>

(***************************************************************************)
(* start_vm (Proxmox).                                                     *)
(***************************************************************************)
\* json_response of proxmox_api.py, with its message.
pve_json_response(success, data, error, message) ==
    [k \in {"success", "timestamp"}
            \cup (IF TruthyDict(data) THEN {"data"} ELSE {})
            \cup (IF TruthyStr(error) THEN {"error"} ELSE {})
            \cup (IF TruthyStr(message) THEN {"message"} ELSE {})
        |-> CASE k = "success"   -> success
              [] k = "timestamp" -> "iso8601"
              [] k = "data"      -> data[1]
              [] k = "error"     -> error[1]
              [] k = "message"   -> message[1]]

\* vm_type.upper()
upper(vm_type) ==
    CASE vm_type = "qemu" -> "QEMU"
      [] vm_type = "lxc"  -> "LXC"
      [] vm_type = "kvm"  -> "KVM"

\* proxmox.nodes(node).<vm_type>(vmid).status.current.get()
GetCurrentOutcomes(vmid, vm_type) ==
    (IF vmid \in VmIds /\ VmKind(vmid) = vm_type
        THEN {Returned([status |-> vms[vmid]])}
        ELSE {Raised(NotFoundMsg)})
    \cup FaultOutcomes

\* Variant: a guest counts as running only when it is a qemu guest.
current_running_qemu_only(current, vm_type) ==
    current.status = "running" /\ vm_type = "qemu"

\* current['status'] == 'running', in the branch of either kind
current_running(current, vm_type) == current.status = "running"

\* The response for a guest that is already running.
start_vm_noop(vm_type) ==
    pve_json_response(TRUE, Some([status |-> "running"]), None,
                      Some(FStr("{} is already running", 0, upper(vm_type))))

\* The response after the start was requested.
start_vm_initiated(vmid, vm_type, new_status) ==
    pve_json_response(TRUE,
        Some([vmid |-> vmid, type |-> vm_type, status |-> new_status.status]),
        None,
        Some(FStr("{} start initiated", 0, upper(vm_type))))

\* __main__: "start_vm <api_url> <username> <token> <node> <vmid> <vm_type>"
InvokeStartVm(p, vmid, vm_type) ==
    /\ pc[p] \in {"idle", "done"}
    /\ pc' = [pc EXCEPT ![p] = "sv_current"]
    /\ cmd' = [cmd EXCEPT ![p] = "start_vm"]
    /\ args' = [args EXCEPT ![p] = [vmid |-> vmid, vm_type |-> vm_type]]
    /\ check_result' = [check_result EXCEPT ![p] = NoCheck]
    /\ elapsed' = [elapsed EXCEPT ![p] = 0]
    /\ result' = [result EXCEPT ![p] = NoResult]
    /\ calls' = [calls EXCEPT ![p] = NoCalls]
    /\ UNCHANGED <<caught, images, nextId, faults, servers, vms>>

\* start_vm: the check of the current status, and the return for a guest that
\* is already running or a vm_type that is neither qemu nor lxc.  Connecting
\* with a token builds the client without a provider call.
SvCurrent(p) ==
    /\ pc[p] = "sv_current"
    /\ IF args[p].vm_type \notin {"qemu", "lxc"}
       THEN /\ Finish(p, pve_json_response(FALSE, None,
                            Some(FStr("Invalid VM type: {}", 0, args[p].vm_type)), None))
            /\ UNCHANGED faults
       ELSE \E o \in GetCurrentOutcomes(args[p].vmid, args[p].vm_type) :
            /\ faults' = Struck("nodes", o)
            /\ IF o.raised
               THEN Finish(p, pve_json_response(FALSE, None, Some(Str(o.msg)), None))
               ELSE IF current_running(o.value, args[p].vm_type)
               THEN Finish(p, start_vm_noop(args[p].vm_type))
               ELSE /\ pc' = [pc EXCEPT ![p] = "sv_start"]
                    /\ UNCHANGED result
    /\ UNCHANGED <<caught, images, nextId, cmd, args, check_result, elapsed, calls, servers, vms>>

\* start_vm: proxmox.nodes(node).<vm_type>(vmid).status.start.post(); the
\* start runs as a task of the provider.
SvStart(p) ==
    /\ pc[p] = "sv_start"
    /\ calls' = [calls EXCEPT ![p].start_post = @ + 1]
    /\ \/ /\ pc' = [pc EXCEPT ![p] = "sv_recheck"]
          /\ UNCHANGED <<faults, result>>
       \/ \E o \in FaultOutcomes :
              /\ faults' = Struck("nodes", o)
              /\ Finish(p, pve_json_response(FALSE, None, Some(Str(o.msg)), None))
    /\ UNCHANGED <<caught, images, nextId, cmd, args, check_result, elapsed, servers, vms>>

\* start_vm: time.sleep(2), new_status = ...status.current.get(), the response.
SvRecheck(p) ==
    /\ pc[p] = "sv_recheck"
    /\ \E o \in GetCurrentOutcomes(args[p].vmid, args[p].vm_type) :
        /\ faults' = Struck("nodes", o)
        /\ IF o.raised
           THEN Finish(p, pve_json_response(FALSE, None, Some(Str(o.msg)), None))
           ELSE Finish(p, start_vm_initiated(args[p].vmid, args[p].vm_type, o.value))
    /\ UNCHANGED <<caught, images, nextId, cmd, args, check_result, elapsed, calls, servers, vms>>

(***************************************************************************)
(* The command lines.  sys.argv is a sequence whose first element is the   *)
(* script's name, so Python's sys.argv[i] is argv[i + 1] here.             *)
(***************************************************************************)
HetznerCommands ==
    {"start", "stop", "reboot", "status", "create_snapshot", "wait_snapshot",
     "list_snapshots", "delete_snapshot"}

PveCommands ==
    {"test_connection", "get_vm_status", "start_vm", "stop_vm", "shutdown_vm",
     "reboot_vm", "list_snapshots", "create_snapshot", "rollback_snapshot",
     "delete_snapshot", "list_vms"}

\* int(s) succeeds on these words and raises ValueError on any other.
IsInt(s) == s \in {"1"}

\* A message that formats two numbers.
FPair(text, a, b) == [text |-> text, n |-> a, s |-> "", d |-> <<b>>]

\* What running main up to the operation's call gives: a response printed and
\* sys.exit(1), an exception that nothing catches, or the operation's call.
Exit1(error) == [kind |-> "exit", response |-> json_response(FALSE, None, Some(error))]
Unhandled == [kind |-> "raise", response |-> NoResult]
Call == [kind |-> "call", response |-> NoResult]

\* The least len(sys.argv) each branch of main accepts.
hetzner_required(command) ==
    CASE command = "create_snapshot" -> 5
      [] command = "list_snapshots"  -> 3
      [] OTHER                       -> 4

\* Variant: the response is printed and main returns.
hetzner_unknown_command_no_exit(command) ==
    [kind |-> "print",
     response |-> json_response(FALSE, None, Some(FStr("Unknown command: {}", 0, command)))]

\* main's else branch
hetzner_unknown_command(command) == Exit1(FStr("Unknown command: {}", 0, command))

\* Variant: a branch's argument count is not tested.
hetzner_too_few_unchecked(argv, command) == FALSE

\* The test `len(sys.argv) < n` of the command's branch
hetzner_too_few(argv, command) == Len(argv) < hetzner_required(command)

\* main of hetzner_cloud.py, up to the operation's call.
hetzner_main(argv) ==
    IF Len(argv) < 3
    THEN Exit1(Str("Usage: hetzner_cloud.py <command> <api_token> [args...]"))
    ELSE LET command == argv[2]
         IN  IF command \notin HetznerCommands
             THEN hetzner_unknown_command(command)
             ELSE IF hetzner_too_few(argv, command)
             THEN Exit1(FStr("Usage: hetzner_cloud.py {} <api_token> ...", 0, command))
                  \* each branch's usage line names its command and its arguments
             ELSE IF command = "list_snapshots"
             THEN Call
             ELSE IF Len(argv) < 4 \/ ~IsInt(argv[4])
             THEN Unhandled
             ELSE IF command = "create_snapshot" /\ Len(argv) < 5
             THEN Unhandled
             ELSE IF command = "wait_snapshot" /\ Len(argv) > 4 /\ ~IsInt(argv[5])
             THEN Unhandled
             ELSE Call

\* The number of words `a, b, ... = sys.argv[2:n]` unpacks for the command.
pve_unpacked(command) ==
    CASE command \in {"create_snapshot", "rollback_snapshot", "delete_snapshot"} -> 7
      [] command = "list_vms" -> 4
      [] OTHER                -> 6

\* len(sys.argv[2:n]) for the n of the command
pve_slice_len(argv, command) == Min({pve_unpacked(command), Len(argv) - 2})

\* __main__'s else branch; `except Exception` lets SystemExit pass.
pve_unknown_command(command) == Exit1(FStr("Unknown command: {}", 0, command))

\* __main__ of proxmox_api.py, up to the operation's call.
pve_main(argv) ==
    IF Len(argv) < 2
    THEN Exit1(Str("Usage: proxmox_api.py <command> <args>"))
    ELSE LET command == argv[2]
         IN  IF command \notin PveCommands
             THEN pve_unknown_command(command)
             ELSE IF command = "test_connection"
             THEN (IF Len(argv) < 5
                     THEN Exit1(FStr("Missing required arguments for command: {}", 0, command))
                     ELSE Call)
             ELSE IF pve_slice_len(argv, command) < pve_unpacked(command)
             THEN Exit1(FPair("not enough values to unpack (expected {}, got {})",
                              pve_unpacked(command), pve_slice_len(argv, command)))
             ELSE IF command # "list_vms" /\ ~IsInt(argv[7])
             THEN Exit1(FStr("invalid literal for int() with base 10: {}", 0, argv[7]))
             ELSE Call

\* The tool's main.
main(tool, argv) == IF tool = "hetzner" THEN hetzner_main(argv) ELSE pve_main(argv)

\* One run of a tool up to the operation's call: the response main prints
\* itself, the unhandled exception, or the call.  A process runs one command.
InvokeMain(p, tool, argv) ==
    /\ pc[p] = "idle"
    /\ LET o == main(tool, argv)
       IN  /\ pc' = [pc EXCEPT ![p] = CASE o.kind = "exit"  -> "rejected"
                                        [] o.kind = "raise" -> "crashed"
                                        [] o.kind = "print" -> "done"
                                        [] o.kind = "call"  -> "operation"]
           /\ result' = [result EXCEPT ![p] = o.response]
    /\ cmd' = [cmd EXCEPT ![p] = IF Len(argv) >= 2 THEN argv[2] ELSE "none"]
    /\ args' = [args EXCEPT ![p] = [tool |-> tool, argv |-> argv]]
    /\ check_result' = [check_result EXCEPT ![p] = NoCheck]
    /\ elapsed' = [elapsed EXCEPT ![p] = 0]
    /\ calls' = [calls EXCEPT ![p] = NoCalls]
    /\ UNCHANGED <<caught, images, nextId, faults, servers, vms>>

\* The messages of the exceptions a provider call raises; str(e) of an
\* exception made without a message is the empty string.
ErrorMessages == ProviderMsgs \cup {NotFoundMsg, ""}

\* except Exception as e: return json_response(False, error=str(e))
except_response(tool, e) ==
    IF tool = "hetzner"
    THEN json_response(FALSE, None, Some(Str(e)))
    ELSE pve_json_response(FALSE, None, Some(Str(e)), None)

\* print(<operation>(...)), the try: the provider answers with the
\* operation's data, or a provider call raises.
OpCall(p) ==
    /\ pc[p] = "operation"
    /\ calls' = [calls EXCEPT ![p].operation = @ + 1]
    /\ \/ /\ Finish(p, IF args[p].tool = "hetzner"
                          THEN json_response(TRUE, Some([command |-> cmd[p]]), None)
                          ELSE pve_json_response(TRUE, Some([command |-> cmd[p]]), None, None))
          /\ UNCHANGED <<faults, caught>>
       \/ \E e \in ErrorMessages :
              /\ caught' = [caught EXCEPT ![p] = Some(e)]
              /\ faults' = Append(faults, "operation")
              /\ pc' = [pc EXCEPT ![p] = "except"]
              /\ UNCHANGED result
    /\ UNCHANGED <<images, nextId, cmd, args, check_result, elapsed, servers, vms>>

\* print(<operation>(...)), the except clause that every operation ends with.
OpExcept(p) ==
    /\ pc[p] = "except"
    /\ Finish(p, except_response(args[p].tool, caught[p][1]))
    /\ UNCHANGED <<images, nextId, faults, cmd, args, check_result, elapsed, calls,
                   caught, servers, vms>>

(***************************************************************************)
(* delete_snapshot (Hetzner).                                              *)
(***************************************************************************)
\* Variant: a snapshot that is not there counts as deleted.
delete_snapshot_missing_ok(snapshot_id) ==
    json_response(TRUE,
        Some([snapshot_id |-> snapshot_id,
              message     |-> Str("Snapshot deleted successfully")]),
        None)

\* The response for `if not image`.
delete_snapshot_missing(snapshot_id) ==
    json_response(FALSE, None, Some(FStr("Snapshot {} not found", snapshot_id, "")))

\* The response after image.delete().
delete_snapshot_deleted(snapshot_id) ==
    json_response(TRUE,
        Some([snapshot_id |-> snapshot_id,
              message     |-> Str("Snapshot deleted successfully")]),
        None)

\* main: "delete_snapshot <api_token> <snapshot_id>"
InvokeDeleteSnapshot(p, snapshot_id) ==
    /\ pc[p] \in {"idle", "done"}
    /\ pc' = [pc EXCEPT ![p] = "ds_get"]
    /\ cmd' = [cmd EXCEPT ![p] = "delete_snapshot"]
    /\ args' = [args EXCEPT ![p] = [snapshot_id |-> snapshot_id]]
    /\ check_result' = [check_result EXCEPT ![p] = NoCheck]
    /\ elapsed' = [elapsed EXCEPT ![p] = 0]
    /\ result' = [result EXCEPT ![p] = NoResult]
    /\ calls' = [calls EXCEPT ![p] = NoCalls]
    /\ UNCHANGED <<caught, images, nextId, faults, servers, vms>>

\* delete_snapshot: image = client.images.get_by_id(snapshot_id), and the
\* return for a snapshot that is not there.
DsGet(p) ==
    /\ pc[p] = "ds_get"
    /\ \E o \in GetImageOutcomes(args[p].snapshot_id) :
        /\ faults' = Struck("images", o)
        /\ IF o.raised
           THEN Finish(p, json_response(FALSE, None, Some(Str(o.msg))))
           ELSE IF o.value = None
           THEN Finish(p, delete_snapshot_missing(args[p].snapshot_id))
           ELSE /\ pc' = [pc EXCEPT ![p] = "ds_delete"]
                /\ UNCHANGED result
    /\ UNCHANGED <<caught, images, nextId, cmd, args, check_result, elapsed, calls, servers, vms>>

\* delete_snapshot: image.delete(), whatever the image's status; the provider
\* refuses when the image has gone meanwhile.
DsDelete(p) ==
    /\ pc[p] = "ds_delete"
    /\ calls' = [calls EXCEPT ![p].delete_image = @ + 1]
    /\ \/ /\ ImageIndex(images, args[p].snapshot_id) # {}
          /\ images' = SelectSeq(images, LAMBDA img : img.id # args[p].snapshot_id)
          /\ Finish(p, delete_snapshot_deleted(args[p].snapshot_id))
          /\ UNCHANGED faults
       \/ /\ ImageIndex(images, args[p].snapshot_id) = {}
          /\ Finish(p, json_response(FALSE, None, Some(Str(NotFoundMsg))))
          /\ UNCHANGED <<images, faults>>
       \/ \E o \in FaultOutcomes :
              /\ faults' = Struck("images", o)
              /\ Finish(p, json_response(FALSE, None, Some(Str(o.msg))))
              /\ UNCHANGED images
    /\ UNCHANGED <<caught, nextId, cmd, args, check_result, elapsed, servers, vms>>

(***************************************************************************)
(* stop_server (Hetzner).  The server's name in the response is left out.  *)
(***************************************************************************)
\* Variant: the status is compared with the wrong constant.
already_off_status_stopped(server) == server.status = "stopped"

\* server.status == Server.STATUS_OFF
already_off(server) == server.status = "off"

\* The response for a server that is already off.
stop_server_noop(server) ==
    json_response(TRUE,
        Some([server_id |-> server.id,
              status    |-> "off",
              message   |-> Str("Server is already stopped")]),
        None)

\* The response after the shutdown action finished.
stop_server_stopped(server) ==
    json_response(TRUE,
        Some([server_id |-> server.id,
              status    |-> server.status,
              message   |-> Str("Server stopped successfully")]),
        None)

\* main: "stop <api_token> <server_id>"
InvokeStopServer(p, server_id) ==
    /\ pc[p] \in {"idle", "done"}
    /\ pc' = [pc EXCEPT ![p] = "st_get"]
    /\ cmd' = [cmd EXCEPT ![p] = "stop"]
    /\ args' = [args EXCEPT ![p] = [server_id |-> server_id]]
    /\ check_result' = [check_result EXCEPT ![p] = NoCheck]
    /\ elapsed' = [elapsed EXCEPT ![p] = 0]
    /\ result' = [result EXCEPT ![p] = NoResult]
    /\ calls' = [calls EXCEPT ![p] = NoCalls]
    /\ UNCHANGED <<caught, images, nextId, faults, servers, vms>>

\* stop_server: server = client.servers.get_by_id(server_id), and the return
\* for a missing server or one that is already off.
StGet(p) ==
    /\ pc[p] = "st_get"
    /\ \E o \in GetServerOutcomes(args[p].server_id) :
        /\ faults' = Struck("servers", o)
        /\ IF o.raised
           THEN Finish(p, json_response(FALSE, None, Some(Str(o.msg))))
           ELSE IF o.value = None
           THEN Finish(p, json_response(FALSE, None,
                            Some(FStr("Server {} not found", args[p].server_id, ""))))
           ELSE IF already_off(o.value[1])
           THEN Finish(p, stop_server_noop(o.value[1]))
           ELSE /\ pc' = [pc EXCEPT ![p] = "st_shutdown"]
                /\ UNCHANGED result
    /\ UNCHANGED <<caught, images, nextId, cmd, args, check_result, elapsed, calls, servers, vms>>

\* stop_server: action = server.shutdown(); action.wait_until_finished(...).
\* The action is the request to shut down: the server goes off in a step of
\* its own.
StShutdown(p) ==
    /\ pc[p] = "st_shutdown"
    /\ calls' = [calls EXCEPT ![p].shutdown = @ + 1]
    /\ \/ /\ pc' = [pc EXCEPT ![p] = "st_refresh"]
          /\ UNCHANGED <<faults, result>>
       \/ \E o \in FaultOutcomes :
              /\ faults' = Struck("servers", o)
              /\ Finish(p, json_response(FALSE, None, Some(Str(o.msg))))
    /\ UNCHANGED <<caught, images, nextId, cmd, args, check_result, elapsed, servers, vms>>

\* stop_server: server = client.servers.get_by_id(server_id), the response.
StRefresh(p) ==
    /\ pc[p] = "st_refresh"
    /\ \E o \in GetServerOutcomes(args[p].server_id) :
        /\ faults' = Struck("servers", o)
        /\ IF o.raised \/ o.value = None
           THEN Finish(p, json_response(FALSE, None, Some(Str(o.msg))))
           ELSE Finish(p, stop_server_stopped(o.value[1]))
    /\ UNCHANGED <<caught, images, nextId, cmd, args, check_result, elapsed, calls, servers, vms>>

(***************************************************************************)
(* stop_vm and shutdown_vm (Proxmox).                                      *)
(***************************************************************************)
\* Variant: a guest counts as stopped only when it is a qemu guest.
current_stopped_qemu_only(current, vm_type) ==
    current.status = "stopped" /\ vm_type = "qemu"

\* current['status'] == 'stopped', in the branch of either kind
current_stopped(current, vm_type) == current.status = "stopped"

\* The response for a guest that is already stopped.
stop_vm_noop(vm_type) ==
    pve_json_response(TRUE, Some([status |-> "stopped"]), None,
                      Some(FStr("{} is already stopped", 0, upper(vm_type))))

\* The response of stop_vm after the stop was requested.
stop_vm_initiated(vmid, vm_type, new_status) ==
    pve_json_response(TRUE,
        Some([vmid |-> vmid, type |-> vm_type, status |-> new_status.status]),
        None,
        Some(FStr("{} stop initiated", 0, upper(vm_type))))

\* The response of shutdown_vm after the shutdown was requested.
shutdown_vm_initiated(vmid, vm_type) ==
    pve_json_response(TRUE,
        Some([vmid |-> vmid, type |-> vm_type, status |-> "shutting_down"]),
        None,
        Some(FStr("{} graceful shutdown initiated", 0, upper(vm_type))))

\* __main__: "stop_vm ..." and "shutdown_vm ... <node> <vmid> <vm_type>"
InvokePowerOffVm(p, command, vmid, vm_type) ==
    /\ pc[p] \in {"idle", "done"}
    /\ command \in {"stop_vm", "shutdown_vm"}
    /\ pc' = [pc EXCEPT ![p] = "off_current"]
    /\ cmd' = [cmd EXCEPT ![p] = command]
    /\ args' = [args EXCEPT ![p] = [vmid |-> vmid, vm_type |-> vm_type]]
    /\ check_result' = [check_result EXCEPT ![p] = NoCheck]
    /\ elapsed' = [elapsed EXCEPT ![p] = 0]
    /\ result' = [result EXCEPT ![p] = NoResult]
    /\ calls' = [calls EXCEPT ![p] = NoCalls]
    /\ UNCHANGED <<caught, images, nextId, faults, servers, vms>>

\* stop_vm and shutdown_vm alike: the check of the current status, and the
\* return for a guest that is already stopped or a vm_type that is neither
\* qemu nor lxc.
OffCurrent(p) ==
    /\ pc[p] = "off_current"
    /\ IF args[p].vm_type \notin {"qemu", "lxc"}
       THEN /\ Finish(p, pve_json_response(FALSE, None,
                            Some(FStr("Invalid VM type: {}", 0, args[p].vm_type)), None))
            /\ UNCHANGED faults
       ELSE \E o \in GetCurrentOutcomes(args[p].vmid, args[p].vm_type) :
            /\ faults' = Struck("nodes", o)
            /\ IF o.raised
               THEN Finish(p, pve_json_response(FALSE, None, Some(Str(o.msg)), None))
               ELSE IF current_stopped(o.value, args[p].vm_type)
               THEN Finish(p, stop_vm_noop(args[p].vm_type))
               ELSE /\ pc' = [pc EXCEPT ![p] = IF cmd[p] = "stop_vm"
                                                THEN "sp_stop" ELSE "sd_shutdown"]
                    /\ UNCHANGED result
    /\ UNCHANGED <<caught, images, nextId, cmd, args, check_result, elapsed, calls, servers, vms>>

\* stop_vm: proxmox.nodes(node).<vm_type>(vmid).status.stop.post(); the stop
\* runs as a task of the provider.
SpStop(p) ==
    /\ pc[p] = "sp_stop"
    /\ calls' = [calls EXCEPT ![p].stop_post = @ + 1]
    /\ \/ /\ pc' = [pc EXCEPT ![p] = "sp_recheck"]
          /\ UNCHANGED <<faults, result>>
       \/ \E o \in FaultOutcomes :
              /\ faults' = Struck("nodes", o)
              /\ Finish(p, pve_json_response(FALSE, None, Some(Str(o.msg)), None))
    /\ UNCHANGED <<caught, images, nextId, cmd, args, check_result, elapsed, servers, vms>>

\* stop_vm: time.sleep(2), new_status = ...status.current.get(), the response.
SpRecheck(p) ==
    /\ pc[p] = "sp_recheck"
    /\ \E o \in GetCurrentOutcomes(args[p].vmid, args[p].vm_type) :
        /\ faults' = Struck("nodes", o)
        /\ IF o.raised
           THEN Finish(p, pve_json_response(FALSE, None, Some(Str(o.msg)), None))
           ELSE Finish(p, stop_vm_initiated(args[p].vmid, args[p].vm_type, o.value))
    /\ UNCHANGED <<caught, images, nextId, cmd, args, check_result, elapsed, calls, servers, vms>>

\* shutdown_vm: proxmox.nodes(node).<vm_type>(vmid).status.shutdown.post(),
\* the response.
SdShutdown(p) ==
    /\ pc[p] = "sd_shutdown"
    /\ calls' = [calls EXCEPT ![p].shutdown_post = @ + 1]
    /\ \/ /\ Finish(p, shutdown_vm_initiated(args[p].vmid, args[p].vm_type))
          /\ UNCHANGED faults
       \/ \E o \in FaultOutcomes :
              /\ faults' = Struck("nodes", o)
              /\ Finish(p, pve_json_response(FALSE, None, Some(Str(o.msg)), None))
    /\ UNCHANGED <<caught, images, nextId, cmd, args, check_result, elapsed, servers, vms>>

(***************************************************************************)
(* The provider: a snapshot being created becomes available, or fails.     *)
(***************************************************************************)
ImageSettles(i, status) ==
    /\ i \in 1..Len(images)
    /\ images[i].status = "creating"
    /\ images' = [images EXCEPT ![i].status = status]
    /\ UNCHANGED <<caught, nextId, faults, pc, cmd, args, check_result, elapsed, result, calls,
                   servers, vms>>

\* The provider's own steps.
ProviderNext ==
    \E i \in 1..MaxImages, st \in ImageStatuses \ {"creating"} : ImageSettles(i, st)

\* The provider: a server boots, is started or is shut off by someone.
ServerBecomes(id, status) ==
    /\ servers[id] # status
    /\ servers' = [servers EXCEPT ![id] = status]
    /\ UNCHANGED <<caught, images, vms, nextId, faults, pc, cmd, args, check_result, elapsed,
                   result, calls>>

\* The provider: a guest's start task completes, or someone stops the guest.
VmBecomes(vmid, status) ==
    /\ vms[vmid] # status
    /\ vms' = [vms EXCEPT ![vmid] = status]
    /\ UNCHANGED <<caught, images, servers, nextId, faults, pc, cmd, args, check_result, elapsed,
                   result, calls>>

(***************************************************************************)
(* The snapshot coordinator: concurrent create_snapshot invocations        *)
(* against one provider account.                                           *)
(***************************************************************************)
Init ==
    /\ images = <<>>
    /\ nextId = 1
    /\ servers = ServersUp
    /\ vms = GuestsUp
    /\ faults = <<>>
    /\ pc = [p \in Procs |-> "idle"]
    /\ cmd = [p \in Procs |-> "none"]
    /\ args = [p \in Procs |-> NoArgs]
    /\ check_result = [p \in Procs |-> NoCheck]
    /\ elapsed = [p \in Procs |-> 0]
    /\ result = [p \in Procs |-> NoResult]
    /\ calls = [p \in Procs |-> NoCalls]
    /\ caught = [p \in Procs |-> None]

\* The steps of running create_snapshot invocations.
CreateSteppers ==
    \/ \E p \in Procs : CsGetServer(p)
    \/ \E p \in Procs : CsCheck(p)
    \/ \E p \in Procs : CsCreate(p)

Next ==
    \/ \E p \in Procs, s \in RequestedServers :
            InvokeCreateSnapshot(p, s, Description(p))
    \/ CreateSteppers
    \/ ProviderNext

Spec == Init /\ [][Next]_vars

(***************************************************************************)
(* The same, with create_snapshot invocations for one server run one after *)
(* the other: none starts while another for that server is in flight.      *)
(***************************************************************************)
NoOverlap(p, server_id) ==
    \A q \in Procs \ {p} : ~(pc[q] \in CreateSteps /\ args[q].server_id = server_id)

NextSeq ==
    \/ \E p \in Procs, s \in RequestedServers :
            NoOverlap(p, s) /\ InvokeCreateSnapshot(p, s, Description(p))
    \/ CreateSteppers
    \/ ProviderNext

SpecSeq == Init /\ [][NextSeq]_vars

(***************************************************************************)
(* wait_snapshot invocations against an account that holds snapshots in    *)
(* any state, which the provider settles meanwhile.                        *)
(***************************************************************************)
\* A snapshot the account holds when the waiting starts.
SeedImage(id, status) ==
    [id |-> id, created_from |-> Some(1), status |-> status, description |-> Description(1)]

\* The image lists of at most n snapshots, with ids 1, 2, ...
RECURSIVE SeedLists(_)
SeedLists(n) ==
    IF n = 0
    THEN {<<>>}
    ELSE LET shorter == SeedLists(n - 1)
         IN  shorter \cup {Append(l, SeedImage(n, st)) :
                              l \in {x \in shorter : Len(x) = n - 1},
                              st \in ImageStatuses}

InitWait ==
    /\ images \in SeedLists(MaxImages)
    /\ nextId = Len(images) + 1
    /\ servers = ServersUp
    /\ vms = GuestsUp
    /\ faults = <<>>
    /\ pc = [p \in Procs |-> "idle"]
    /\ cmd = [p \in Procs |-> "none"]
    /\ args = [p \in Procs |-> NoArgs]
    /\ check_result = [p \in Procs |-> NoCheck]
    /\ elapsed = [p \in Procs |-> 0]
    /\ result = [p \in Procs |-> NoResult]
    /\ calls = [p \in Procs |-> NoCalls]
    /\ caught = [p \in Procs |-> None]

NextWait ==
    \/ \E p \in Procs, id \in 1..MaxImages, t \in Timeouts :
            InvokeWaitSnapshot(p, id, t)
    \/ \E p \in Procs : WsIter(p)
    \/ ProviderNext

SpecWait == InitWait /\ [][NextWait]_vars

\* A running invocation goes on running: its next poll, sleep or return happens.
SpecWaitFair == SpecWait /\ \A p \in Procs : WF_vars(WsIter(p))

(***************************************************************************)
(* list_snapshots applied to every small account and every filter.         *)
(***************************************************************************)
\* Descriptions of the account's snapshots, and the names asked for.
ListDescriptions == {<<"a", "-", "1">>, <<"a", "b", "-", "1">>, <<"-", "1">>, <<"a">>}
ServerNames == {None, Some(<<>>), Some(<<"a">>), Some(<<"a", "b">>)}
\* The ids asked for; the provider's ids are positive.
ServerIdArgs == {None, Some(0), Some(1), Some(2)}
\* The recorded source of a snapshot; legacy snapshots have none.
Sources == {None, Some(1), Some(2)}

\* The image lists of at most n snapshots, with ids 1, 2, ...
RECURSIVE AccountLists(_)
AccountLists(n) ==
    IF n = 0
    THEN {<<>>}
    ELSE LET shorter == AccountLists(n - 1)
         IN  shorter \cup
             {Append(l, [id |-> n, created_from |-> src, status |-> "available",
                         description |-> d]) :
                 l \in {x \in shorter : Len(x) = n - 1},
                 src \in Sources, d \in ListDescriptions}

\* The one invocation that lists.
Lister == Min(Procs)

InitList ==
    /\ images \in AccountLists(MaxImages)
    /\ nextId = Len(images) + 1
    /\ servers = ServersUp
    /\ vms = GuestsUp
    /\ faults = <<>>
    /\ pc = [p \in Procs |-> "idle"]
    /\ cmd = [p \in Procs |-> "none"]
    /\ args = [p \in Procs |-> NoArgs]
    /\ check_result = [p \in Procs |-> NoCheck]
    /\ elapsed = [p \in Procs |-> 0]
    /\ result = [p \in Procs |-> NoResult]
    /\ calls = [p \in Procs |-> NoCalls]
    /\ caught = [p \in Procs |-> None]

NextList ==
    \/ \E name \in ServerNames, id \in ServerIdArgs : InvokeListSnapshots(Lister, name, id)
    \/ LsList(Lister)

SpecList == InitList /\ [][NextList]_vars

(***************************************************************************)
(* Power-on invocations against servers and guests whose status others     *)
(* change meanwhile.                                                       *)
(***************************************************************************)
InitPower ==
    /\ images = <<>>
    /\ servers \in [KnownServers -> ServerStatuses \ {"starting"}]
    /\ vms \in [VmIds -> VmStatuses]
    /\ nextId = 1
    /\ faults = <<>>
    /\ pc = [p \in Procs |-> "idle"]
    /\ cmd = [p \in Procs |-> "none"]
    /\ args = [p \in Procs |-> NoArgs]
    /\ check_result = [p \in Procs |-> NoCheck]
    /\ elapsed = [p \in Procs |-> 0]
    /\ result = [p \in Procs |-> NoResult]
    /\ calls = [p \in Procs |-> NoCalls]
    /\ caught = [p \in Procs |-> None]

NextPower ==
    \/ \E p \in Procs, s \in RequestedServers : InvokeStartServer(p, s)
    \/ \E p \in Procs : SsGet(p)
    \/ \E p \in Procs : SsPowerOn(p)
    \/ \E p \in Procs : SsWait(p)
    \/ \E p \in Procs : SsRefresh(p)
    \/ \E p \in Procs, v \in VmIds, t \in VmTypes : InvokeStartVm(p, v, t)
    \/ \E p \in Procs : SvCurrent(p)
    \/ \E p \in Procs : SvStart(p)
    \/ \E p \in Procs : SvRecheck(p)
    \/ \E s \in KnownServers, st \in ServerStatuses \ {"starting"} : ServerBecomes(s, st)
    \/ \E v \in VmIds, st \in VmStatuses : VmBecomes(v, st)

SpecPower == InitPower /\ [][NextPower]_vars

(***************************************************************************)
(* Runs of either tool on every short command line.                        *)
(***************************************************************************)
\* The most words after the script's name.
MaxArgv == 9

Tools == {"hetzner", "proxmox"}
\* The command words: each tool's commands and one that neither knows.
CommandWords == HetznerCommands \cup PveCommands \cup {"bogus"}
\* The further words: one that int() accepts and one that it refuses.
Words == {"1", "x"}

\* The word lists of length n over Words.
RECURSIVE WordLists(_)
WordLists(n) ==
    IF n = 0
    THEN {<<>>}
    ELSE {Append(l, w) : l \in WordLists(n - 1), w \in Words}

\* The lists of further words: every list of up to three words, and longer
\* ones of one repeated word.
ArgLists ==
    UNION {WordLists(n) : n \in 0..3}
        \cup {[i \in 1..n |-> w] : n \in 4..(MaxArgv - 1), w \in Words}

\* The command lines: the script alone, or a command and further words.
CommandLines ==
    {<<"script">>} \cup {<<"script", c>> \o l : c \in CommandWords, l \in ArgLists}

InitMain ==
    /\ images = <<>>
    /\ servers = ServersUp
    /\ vms = GuestsUp
    /\ nextId = 1
    /\ faults = <<>>
    /\ pc = [p \in Procs |-> "idle"]
    /\ cmd = [p \in Procs |-> "none"]
    /\ args = [p \in Procs |-> NoArgs]
    /\ check_result = [p \in Procs |-> NoCheck]
    /\ elapsed = [p \in Procs |-> 0]
    /\ result = [p \in Procs |-> NoResult]
    /\ calls = [p \in Procs |-> NoCalls]
    /\ caught = [p \in Procs |-> None]

NextMain ==
    \/ \E tool \in Tools, argv \in CommandLines : InvokeMain(Lister, tool, argv)
    \/ OpCall(Lister)
    \/ OpExcept(Lister)

SpecMain == InitMain /\ [][NextMain]_vars

(***************************************************************************)
(* wait_snapshot and create_snapshot invocations against an account that   *)
(* holds snapshots in any state.                                           *)
(***************************************************************************)
\* The invocation that waits, over and over, and the one that creates.
Waiter == Min(Procs)
Creator == Min(Procs \ {Waiter})

NextReattach ==
    \/ \E id \in 1..MaxImages, t \in Timeouts : InvokeWaitSnapshot(Waiter, id, t)
    \/ WsIter(Waiter)
    \/ \E s \in KnownServers : InvokeCreateSnapshot(Creator, s, Description(Creator))
    \/ CsGetServer(Creator)
    \/ CsCheck(Creator)
    \/ CsCreate(Creator)
    \/ ProviderNext

SpecReattach == InitWait /\ [][NextReattach]_vars

(***************************************************************************)
(* delete_snapshot invocations against an account that holds snapshots in  *)
(* any state, which the provider settles meanwhile.                        *)
(***************************************************************************)
NextDelete ==
    \/ \E p \in Procs, id \in 1..(MaxImages + 1) : InvokeDeleteSnapshot(p, id)
    \/ \E p \in Procs : DsGet(p)
    \/ \E p \in Procs : DsDelete(p)
    \/ ProviderNext

SpecDelete == InitWait /\ [][NextDelete]_vars

(***************************************************************************)
(* Power-off invocations against servers and guests whose status others    *)
(* change meanwhile.                                                       *)
(***************************************************************************)
\* The invocation that runs hetzner_cloud.py and the one that runs
\* proxmox_api.py.
CloudCaller == Min(Procs)
PveCaller == Min(Procs \ {CloudCaller})

NextPowerOff ==
    \/ \E s \in RequestedServers : InvokeStopServer(CloudCaller, s)
    \/ \E p \in Procs : StGet(p)
    \/ \E p \in Procs : StShutdown(p)
    \/ \E p \in Procs : StRefresh(p)
    \/ \E c \in {"stop_vm", "shutdown_vm"}, v \in VmIds, t \in VmTypes :
            InvokePowerOffVm(PveCaller, c, v, t)
    \/ \E p \in Procs : OffCurrent(p)
    \/ \E p \in Procs : SpStop(p)
    \/ \E p \in Procs : SpRecheck(p)
    \/ \E p \in Procs : SdShutdown(p)
    \/ \E s \in KnownServers, st \in ServerStatuses \ {"starting"} : ServerBecomes(s, st)
    \/ \E v \in VmIds, st \in VmStatuses : VmBecomes(v, st)

SpecPowerOff == InitPower /\ [][NextPowerOff]_vars

(***************************************************************************)
(*                         The claims                                      *)
(***************************************************************************)
\* The provider's truth: the indices of the snapshots of server s that are
\* being created.
CreatingFor(imgs, s) ==
    {i \in 1..Len(imgs) : imgs[i].created_from = Some(s) /\ imgs[i].status = "creating"}

\* Invocation p takes the step that leaves `at` and no error strikes its call.
StepsFrom(p, at) == pc[p] = at /\ pc'[p] # at /\ faults' = faults

\* p has returned from command c.
Returned_(p, c) == pc[p] = "done" /\ cmd[p] = c

\* C1: when create_snapshot's in-progress check lists the images (the server
\* lookup and the listing having succeeded) and the server has a snapshot in
\* state creating whose source is that server, the invocation returns at once
\* a success carrying the id of such a snapshot with already_in_progress=true,
\* having issued no create-image call.
C1_ExistingSnapshotReturned ==
    [][\A p \in Procs :
        (StepsFrom(p, "cs_check") /\ CreatingFor(images, args[p].server_id) # {})
        => /\ pc'[p] = "done"
           /\ result'[p].success
           /\ result'[p].data.already_in_progress
           /\ \E i \in CreatingFor(images, args[p].server_id) :
                 /\ result'[p].data.snapshot_id = images[i].id
                 /\ result'[p].data.description = images[i].description
           /\ calls'[p].create_image = 0]_vars

\* C1's case: an invocation returned an existing snapshot that is still being
\* created for its server, without a create call.
C1_Witness ==
    \E p \in Procs :
        /\ Returned_(p, "create_snapshot")
        /\ result[p].success
        /\ result[p].data.already_in_progress
        /\ calls[p].create_image = 0
        /\ \E i \in CreatingFor(images, args[p].server_id) :
              images[i].id = result[p].data.snapshot_id

\* C2 as claimed: under any interleaving of create_snapshot invocations a
\* server has at most one snapshot in state creating.
C2_AtMostOneCreating ==
    \A s \in KnownServers : Cardinality(CreatingFor(images, s)) <= 1

\* C2 amended (SpecSeq): when the create_snapshot invocations for one server
\* run one after the other and no in-progress check has failed, the server has
\* at most one snapshot in state creating.
C2_AtMostOneCreatingSerial ==
    (\A k \in 1..Len(faults) : faults[k] # "images.get_all")
    => \A s \in KnownServers : Cardinality(CreatingFor(images, s)) <= 1

\* C2's case: a second invocation for a server ran while the snapshot the first
\* one created was still being created.
C2_Witness ==
    \E p, q \in Procs :
        /\ p # q
        /\ Returned_(p, "create_snapshot") /\ Returned_(q, "create_snapshot")
        /\ args[p].server_id = args[q].server_id
        /\ calls[p].create_image = 1 /\ calls[q].create_image = 0
        /\ result[q].success
        /\ Cardinality(CreatingFor(images, args[p].server_id)) = 1

\* C3: when the in-progress check of create_snapshot for an existing server
\* finds no snapshot of it in state creating, the invocation goes on to the
\* create-image call; it issues exactly one such call, and when the provider
\* creates the image it returns a success carrying the new snapshot's id with
\* already_in_progress=false.
C3_CreatesExactlyOnce ==
    [][\A p \in Procs :
        /\ (StepsFrom(p, "cs_check") /\ CreatingFor(images, args[p].server_id) = {})
           => /\ pc'[p] = "cs_create"
              /\ calls'[p].create_image = 0
        /\ (pc[p] = "cs_create" /\ pc'[p] # "cs_create")
           => /\ pc'[p] = "done"
              /\ calls'[p].create_image = 1
              /\ faults' = faults
                 => /\ result'[p].success
                    /\ ~result'[p].data.already_in_progress
                    /\ ImageIndex(images, result'[p].data.snapshot_id) = {}
                    /\ Len(images') = Len(images) + 1
                    /\ images'[Len(images')].id = result'[p].data.snapshot_id
                    /\ images'[Len(images')].created_from = Some(args[p].server_id)
                    /\ images'[Len(images')].status = "creating"]_vars

\* C3's case: an invocation whose check succeeded created a snapshot for a
\* server that already had a settled one.
C3_Witness ==
    \E p \in Procs :
        /\ Returned_(p, "create_snapshot")
        /\ result[p].success
        /\ ~result[p].data.already_in_progress
        /\ "error" \notin DOMAIN check_result[p]
        /\ calls[p].create_image = 1
        /\ \E i \in 1..Len(images) :
              /\ images[i].created_from = Some(args[p].server_id)
              /\ images[i].status # "creating"
              /\ images[i].id < result[p].data.snapshot_id

\* C4 (SpecSeq): an invocation q created a snapshot (its check had not failed)
\* and returned; while that snapshot is still being created, the next
\* invocation for the same server returns a success with the identical
\* snapshot id, and one create-image call was issued across both.
C4_CreateTwiceSameSnapshot ==
    [][\A p, q \in Procs :
        ( /\ p # q
          /\ StepsFrom(p, "cs_check")
          /\ Returned_(q, "create_snapshot")
          /\ args[q].server_id = args[p].server_id
          /\ result[q].success
          /\ ~result[q].data.already_in_progress
          /\ "error" \notin DOMAIN check_result[q]
          /\ \E i \in ImageIndex(images, result[q].data.snapshot_id) :
                images[i].status = "creating" )
        => /\ pc'[p] = "done"
           /\ result'[p].success
           /\ result'[p].data.snapshot_id = result[q].data.snapshot_id
           /\ calls[q].create_image + calls'[p].create_image = 1]_vars

\* C4's case: both invocations have returned the same snapshot, the first
\* having created it and the second having attached to it.
C4_Witness ==
    \E p, q \in Procs :
        /\ p # q
        /\ Returned_(p, "create_snapshot") /\ Returned_(q, "create_snapshot")
        /\ args[p].server_id = args[q].server_id
        /\ result[p].success /\ result[q].success
        /\ ~result[q].data.already_in_progress
        /\ result[p].data.already_in_progress
        /\ result[p].data.snapshot_id = result[q].data.snapshot_id
        /\ calls[q].create_image + calls[p].create_image = 1

\* C10: when the in-progress check fails with a provider or transport error,
\* create_snapshot records nothing in progress and goes on to the create-image
\* call; it then issues exactly one such call, and when the provider creates
\* the image it returns the new snapshot with already_in_progress=false.
C10_FailedCheckProceeds ==
    [][\A p \in Procs :
        /\ (pc[p] = "cs_check" /\ pc'[p] # "cs_check" /\ faults' # faults)
           => /\ pc'[p] = "cs_create"
              /\ ~check_result'[p].in_progress
              /\ "error" \in DOMAIN check_result'[p]
              /\ result'[p] = NoResult
        /\ (pc[p] = "cs_create" /\ pc'[p] # "cs_create"
                /\ "error" \in DOMAIN check_result[p])
           => /\ calls'[p].create_image = 1
              /\ faults' = faults
                 => /\ result'[p].success
                    /\ ~result'[p].data.already_in_progress
                    /\ images' = Append(images, images'[Len(images')])
                    /\ images'[Len(images')].id = result'[p].data.snapshot_id]_vars

\* C10's case: an invocation whose check failed has created a snapshot while
\* another one of the same server was being created.
C10_Witness ==
    \E p \in Procs :
        /\ Returned_(p, "create_snapshot")
        /\ "error" \in DOMAIN check_result[p]
        /\ result[p].success
        /\ ~result[p].data.already_in_progress
        /\ calls[p].create_image = 1
        /\ Cardinality(CreatingFor(images, args[p].server_id)) = 2

\* The provider's truth: the status of snapshot `id`, "missing" when the
\* account holds none of that id.
StatusOf(imgs, id) ==
    IF ImageIndex(imgs, id) = {}
    THEN "missing"
    ELSE imgs[CHOOSE i \in ImageIndex(imgs, id) : TRUE].status

\* Waiting invocation p polls the provider in this step.
Polls(p) == pc[p] = "ws_loop" /\ calls'[p].get_image = calls[p].get_image + 1

\* C5: wait_for_snapshot returns a success only from a poll that found the
\* snapshot available; a poll that finds a status other than creating and
\* available returns a failure reporting that status, and a poll that finds
\* no such snapshot returns a not-found failure.
C5_SuccessOnlyWhenAvailable ==
    [][\A p \in Procs :
        LET st == StatusOf(images, args[p].snapshot_id)
        IN  /\ (pc[p] = "ws_loop" /\ pc'[p] = "done" /\ result'[p].success)
               => Polls(p) /\ st = "available"
            /\ (Polls(p) /\ faults' = faults /\ st \notin {"creating", "available", "missing"})
               => /\ pc'[p] = "done"
                  /\ ~result'[p].success
                  /\ result'[p].error.text = "Unexpected snapshot status: {}"
                  /\ result'[p].error.s = st
            /\ (Polls(p) /\ faults' = faults /\ st = "missing")
               => /\ pc'[p] = "done"
                  /\ ~result'[p].success
                  /\ \/ /\ result'[p].error.text = "Snapshot {} not found"
                        /\ result'[p].error.n = args[p].snapshot_id
                     \/ result'[p].error.text = NotFoundMsg]_vars

\* C5's case: after a poll that saw the snapshot being created, the next one
\* found it failed and the wait returned the unexpected status.
C5_Witness ==
    \E p \in Procs :
        /\ Returned_(p, "wait_snapshot")
        /\ calls[p].get_image >= 2
        /\ ~result[p].success
        /\ result[p].error.text = "Unexpected snapshot status: {}"
        /\ result[p].error.s = "unavailable"
        /\ StatusOf(images, args[p].snapshot_id) = "unavailable"

\* C6: a wait_for_snapshot invocation eventually returns; a poll that finds
\* the snapshot being created does not return but sleeps the fixed interval,
\* and the return that no poll precedes happens once the elapsed time has
\* reached the timeout and is the failure naming that timeout.  So a snapshot
\* that is creating at every poll ends in the timeout failure.
C6_CreatingTimesOut ==
    /\ \A p \in Procs : (pc[p] = "ws_loop") ~> (pc[p] = "done")
    /\ [][\A p \in Procs :
            /\ (Polls(p) /\ faults' = faults
                    /\ StatusOf(images, args[p].snapshot_id) = "creating")
               => /\ pc'[p] = "ws_loop"
                  /\ elapsed'[p] = elapsed[p] + PollInterval
            /\ (pc[p] = "ws_loop" /\ pc'[p] = "done" /\ ~Polls(p))
               => /\ elapsed[p] >= args[p].timeout
                  /\ ~result'[p].success
                  /\ result'[p].error.text = "Snapshot creation timed out after {} seconds"
                  /\ result'[p].error.n = args[p].timeout]_vars

\* C6's case: a wait with a positive timeout polled a snapshot that stayed
\* creating, and returned the timeout failure while it still is.
C6_Witness ==
    \E p \in Procs :
        /\ Returned_(p, "wait_snapshot")
        /\ args[p].timeout > 0
        /\ calls[p].get_image >= 2
        /\ elapsed[p] >= args[p].timeout
        /\ ~result[p].success
        /\ result[p].error.text = "Snapshot creation timed out after {} seconds"
        /\ StatusOf(images, args[p].snapshot_id) = "creating"

\* The entries of the snapshots at the indices I of imgs, in listing order.
RECURSIVE EntriesAt(_, _, _)
EntriesAt(imgs, I, k) ==
    IF k > Len(imgs)
    THEN <<>>
    ELSE (IF k \in I
            THEN <<[snapshot_id     |-> imgs[k].id,
                    description     |-> imgs[k].description,
                    status          |-> imgs[k].status,
                    created_from_id |-> imgs[k].created_from]>>
            ELSE <<>>)
         \o EntriesAt(imgs, I, k + 1)

\* The snapshots whose recorded source id is the id asked for.
IdMatched(imgs, server_id) ==
    {i \in 1..Len(imgs) : server_id # None /\ imgs[i].created_from = server_id}

\* The snapshots whose description starts with "<server_name>-".
PrefixMatched(imgs, server_name) ==
    {i \in 1..Len(imgs) :
        /\ server_name # None
        /\ \E k \in 1..Len(imgs[i].description) :
              /\ imgs[i].description[k] = "-"
              /\ SubSeq(imgs[i].description, 1, k - 1) = server_name[1]}

\* What the precedence of the strategies gives when `byId` and `byName` say
\* whether the id and the name take part.
Expected(imgs, byId, byName, server_name, server_id) ==
    IF byId /\ IdMatched(imgs, server_id) # {}
    THEN [snapshots |-> EntriesAt(imgs, IdMatched(imgs, server_id), 1),
          filter_used |-> "server_id"]
    ELSE IF byName /\ PrefixMatched(imgs, server_name) # {}
    THEN [snapshots |-> EntriesAt(imgs, PrefixMatched(imgs, server_name), 1),
          filter_used |-> "hostname_prefix"]
    ELSE [snapshots |-> EntriesAt(imgs, 1..Len(imgs), 1),
          filter_used |-> "all_project"]

\* The response of p's list_snapshots is what `expected` says.
Lists(p, expected) ==
    /\ result[p].data.snapshots = expected.snapshots
    /\ result[p].data.filter_used = expected.filter_used
    /\ result[p].data.count = Len(expected.snapshots)

\* C7 as claimed: for every snapshot set and every (server_id, server_name),
\* the id-matched set if any snapshot's source id equals server_id, otherwise
\* the prefix-matched set if any description starts with "<server_name>-",
\* otherwise the full set; filter_used names the strategy and count is the
\* size of the returned set.
C7_StrictPrecedence ==
    \A p \in Procs :
        (Returned_(p, "list_snapshots") /\ result[p].success)
        => Lists(p, Expected(images, TRUE, TRUE, args[p].server_name, args[p].server_id))

\* C7 amended: the same, for a server_id that is not 0 and a server_name that
\* is not empty; an id of 0 or an empty name takes no part in the matching, as
\* if it were not given.
C7_PrecedenceOfGivenFilters ==
    \A p \in Procs :
        (Returned_(p, "list_snapshots") /\ result[p].success)
        => Lists(p, Expected(images,
                        args[p].server_id # Some(0), args[p].server_name # Some(<<>>),
                        args[p].server_name, args[p].server_id))

\* C7's case: the id and the name match different, non-empty sets of
\* snapshots, and the id-matched one is returned.
C7_Witness ==
    \E p \in Procs :
        /\ Returned_(p, "list_snapshots") /\ result[p].success
        /\ IdMatched(images, args[p].server_id) # {}
        /\ PrefixMatched(images, args[p].server_name) # {}
        /\ IdMatched(images, args[p].server_id) # PrefixMatched(images, args[p].server_name)
        /\ result[p].data.filter_used = "server_id"
        /\ result[p].data.count = Cardinality(IdMatched(images, args[p].server_id))

\* C8: when list_snapshots is called with a server name and/or id and neither
\* matches a snapshot, it returns all snapshots of the account; and whatever
\* it is called with, it returns no snapshot only if the account has none.
C8_FallbackToAll ==
    \A p \in Procs :
        (Returned_(p, "list_snapshots") /\ result[p].success)
        => /\ ( /\ args[p].server_name # None \/ args[p].server_id # None
                /\ IdMatched(images, args[p].server_id) = {}
                /\ PrefixMatched(images, args[p].server_name) = {} )
              => /\ result[p].data.snapshots = EntriesAt(images, 1..Len(images), 1)
                 /\ result[p].data.count = Len(images)
           /\ result[p].data.snapshots = <<>> => images = <<>>

\* C8's case: a name and an id that match none of the account's snapshots, and
\* all of them returned.
C8_Witness ==
    \E p \in Procs :
        /\ Returned_(p, "list_snapshots") /\ result[p].success
        /\ TruthyName(args[p].server_name) /\ TruthyInt(args[p].server_id)
        /\ IdMatched(images, args[p].server_id) = {}
        /\ PrefixMatched(images, args[p].server_name) = {}
        /\ Len(images) >= 2
        /\ result[p].data.count = Len(images)
        /\ result[p].data.filter_used = "all_project"

\* C9: whenever a power-on invocation observes its resource running (the
\* status read succeeds on a Hetzner server, or on a Proxmox guest of kind qemu
\* or lxc, whose status is running), it returns at once a success result that
\* says the resource is already running, has issued no start call, and has
\* left the resource as it was.
C9_RunningPowerOnIsNoOp ==
    [][\A p \in Procs :
        /\ ( /\ StepsFrom(p, "ss_get")
             /\ args[p].server_id \in KnownServers
             /\ servers[args[p].server_id] = "running" )
           => /\ pc'[p] = "done"
              /\ result'[p].success
              /\ result'[p].data.status = "running"
              /\ result'[p].data.server_id = args[p].server_id
              /\ result'[p].data.message.text = "Server is already running"
              /\ calls'[p].power_on = 0
              /\ servers' = servers
        /\ ( /\ StepsFrom(p, "sv_current")
             /\ args[p].vm_type \in {"qemu", "lxc"}
             /\ args[p].vmid \in VmIds
             /\ VmKind(args[p].vmid) = args[p].vm_type
             /\ vms[args[p].vmid] = "running" )
           => /\ pc'[p] = "done"
              /\ result'[p].success
              /\ result'[p].data.status = "running"
              /\ result'[p].message.text = "{} is already running"
              /\ result'[p].message.s = (IF args[p].vm_type = "qemu" THEN "QEMU" ELSE "LXC")
              /\ calls'[p].start_post = 0
              /\ vms' = vms
    ]_vars

\* C9's case: a start of a running Hetzner server and a start_vm of a running
\* lxc guest have each returned the no-op.
C9_Witness ==
    /\ \E p \in Procs :
        /\ Returned_(p, "start") /\ result[p].success
        /\ servers[args[p].server_id] = "running"
        /\ result[p].data.message.text = "Server is already running"
        /\ calls[p].power_on = 0
    /\ \E p \in Procs :
        /\ Returned_(p, "start_vm") /\ result[p].success
        /\ args[p].vm_type = "lxc"
        /\ vms[args[p].vmid] = "running"
        /\ "message" \in DOMAIN result[p]
        /\ result[p].message.text = "{} is already running"
        /\ calls[p].start_post = 0

\* The run of p ended in main itself: a failure response, then sys.exit(1).
Rejected(p) ==
    /\ pc[p] = "rejected"
    /\ ~result[p].success
    /\ "error" \in DOMAIN result[p]

\* p ran with a command word that its tool does not know.
UnknownCommandRun(p) ==
    /\ pc[p] # "idle"
    /\ Len(args[p].argv) >= 2
    /\ args[p].argv[2] \notin
          (IF args[p].tool = "hetzner" THEN HetznerCommands ELSE PveCommands)

\* The failure response of p names the command word of its command line.
NamesCommand(p) ==
    /\ Rejected(p)
    /\ result[p].error.text = "Unknown command: {}"
    /\ result[p].error.s = args[p].argv[2]

\* C11 as claimed: for both tools, every run with a command word that is not
\* one of the tool's commands, whatever the number of further words, prints a
\* failure response whose error names that command and exits non-zero.
C11_UnknownCommandNamed ==
    \A p \in Procs : UnknownCommandRun(p) => NamesCommand(p)

\* C11 amended: the same for proxmox_api.py with any number of further words
\* and for hetzner_cloud.py with at least one further word (the api token);
\* hetzner_cloud.py with the command word alone prints its general usage
\* failure, which does not name the command, and exits non-zero.
C11_UnknownCommandNamedGivenToken ==
    \A p \in Procs :
        UnknownCommandRun(p)
        => IF args[p].tool = "hetzner" /\ Len(args[p].argv) < 3
           THEN /\ Rejected(p)
                /\ result[p].error.text = "Usage: hetzner_cloud.py <command> <api_token> [args...]"
           ELSE NamesCommand(p)

\* C11's case: an unknown command word followed by several words has been
\* refused by name, exit status 1.
C11_Witness ==
    \E p \in Procs :
        /\ UnknownCommandRun(p)
        /\ args[p].tool = "hetzner"
        /\ Len(args[p].argv) >= 5
        /\ NamesCommand(p)
        /\ result[p].error.s = "bogus"

\* The run of p has ended.
Ended(p) == pc[p] \in {"done", "rejected", "crashed"}

\* C12: every run of either tool, for every command, every argument list
\* (words that are no numbers included) and every provider outcome, ends with
\* exactly one result document printed and never in an unhandled exception.
C12_OneDocumentNoUnhandledFault ==
    \A p \in Procs :
        Ended(p) => /\ pc[p] # "crashed"
                    /\ "success" \in DOMAIN result[p]

\* C13: when a provider call inside an operation raises an error, the
\* operation returns a failure result with an `error` field equal to the
\* provider's message, whatever that message is, and no `data` field.
C13_ErrorVerbatim ==
    \A p \in Procs :
        (pc[p] = "done" /\ caught[p] # None)
        => /\ ~result[p].success
           /\ "data" \notin DOMAIN result[p]
           /\ "error" \in DOMAIN result[p]
           /\ result[p].error.text = caught[p][1]

\* The wait of p gave up on the deadline.
WaitTimedOut(p) ==
    /\ Returned_(p, "wait_snapshot")
    /\ ~result[p].success
    /\ "error" \in DOMAIN result[p]
    /\ result[p].error.text = "Snapshot creation timed out after {} seconds"

\* p, inside wait_for_snapshot, takes a step.
WaitSteps(p) ==
    /\ cmd[p] = "wait_snapshot"
    /\ pc[p] = "ws_loop"
    /\ pc'[p] # pc[p] \/ elapsed'[p] # elapsed[p]

C15_DeleteUnknownFails ==
    [][\A p \in Procs :
        /\ ( /\ StepsFrom(p, "ds_get")
             /\ ImageIndex(images, args[p].snapshot_id) = {} )
           => /\ pc'[p] = "done"
              /\ ~result'[p].success
              /\ "error" \in DOMAIN result'[p]
              /\ \/ /\ result'[p].error.text = "Snapshot {} not found"
                    /\ result'[p].error.n = args[p].snapshot_id
                 \/ result'[p].error.text = NotFoundMsg
              /\ calls'[p].delete_image = 0
              /\ images' = images
        /\ ( /\ StepsFrom(p, "ds_get")
             /\ ImageIndex(images, args[p].snapshot_id) # {} )
           => /\ pc'[p] = "ds_delete"
              /\ calls'[p].delete_image = 0
        /\ (pc[p] = "ds_delete" /\ pc'[p] # "ds_delete")
           => /\ pc'[p] = "done"
              /\ calls'[p].delete_image = 1
              /\ result'[p].success
                    => ImageIndex(images', args[p].snapshot_id) = {}
    ]_vars

\* C15's case: one delete_snapshot has deleted a snapshot with one delete
\* call, and one for an unknown id has failed without any.
C15_Witness ==
    \E p, q \in Procs :
        /\ Returned_(p, "delete_snapshot") /\ result[p].success
        /\ calls[p].delete_image = 1
        /\ Returned_(q, "delete_snapshot") /\ ~result[q].success
        /\ args[q].snapshot_id > MaxImages
        /\ result[q].error.text = "Snapshot {} not found"
        /\ calls[q].delete_image = 0

\* The number of words a command needs after its name: the credentials and
\* the arguments that are not optional.
Needs(tool, command) ==
    IF tool = "hetzner"
    THEN CASE command = "list_snapshots"  -> 1
           [] command = "create_snapshot" -> 3
           [] OTHER                       -> 2
    ELSE CASE command = "test_connection" -> 3
           [] command = "list_vms"        -> 4
           [] command \in {"create_snapshot", "rollback_snapshot", "delete_snapshot"} -> 7
           [] OTHER                       -> 6

\* p ran a command of its tool with fewer words than the command needs.
TooFewRun(p) ==
    /\ pc[p] # "idle"
    /\ Len(args[p].argv) >= 2
    /\ args[p].argv[2] \in
          (IF args[p].tool = "hetzner" THEN HetznerCommands ELSE PveCommands)
    /\ Len(args[p].argv) - 2 < Needs(args[p].tool, args[p].argv[2])

\* C16: for every command of either tool, a run with fewer words than the
\* command needs ends in main with a failure response and exit status 1; the
\* operation is never called and no provider call is made.
C16_TooFewArgumentsRejected ==
    \A p \in Procs :
        TooFewRun(p) => /\ Rejected(p)
                        /\ calls[p] = NoCalls
                        /\ caught[p] = None

\* C16's case: start_vm of proxmox_api.py with four of its six words has been
\* refused when unpacking them.
C16_Witness ==
    \E p \in Procs :
        /\ TooFewRun(p)
        /\ args[p].tool = "proxmox"
        /\ args[p].argv[2] = "start_vm"
        /\ Len(args[p].argv) = 6
        /\ Rejected(p)
        /\ result[p].error.text = "not enough values to unpack (expected {}, got {})"
        /\ result[p].error.d = <<4>>

\* C17: whenever a power-off invocation observes its resource stopped (the
\* status read succeeds on a Hetzner server that is off, or on a Proxmox guest
\* of kind qemu or lxc that is stopped, for stop_vm and shutdown_vm alike), it
\* returns at once a success result that says the resource is already
\* stopped, has issued no shutdown or stop call, and has left the resource as
\* it was; so a power-off of a stopped resource, however often repeated, does
\* not fail.
C17_StoppedPowerOffIsNoOp ==
    [][\A p \in Procs :
        /\ ( /\ StepsFrom(p, "st_get")
             /\ args[p].server_id \in KnownServers
             /\ servers[args[p].server_id] = "off" )
           => /\ pc'[p] = "done"
              /\ result'[p].success
              /\ result'[p].data.status = "off"
              /\ result'[p].data.server_id = args[p].server_id
              /\ result'[p].data.message.text = "Server is already stopped"
              /\ calls'[p].shutdown = 0
              /\ servers' = servers
        /\ ( /\ StepsFrom(p, "off_current")
             /\ cmd[p] \in {"stop_vm", "shutdown_vm"}
             /\ args[p].vm_type \in {"qemu", "lxc"}
             /\ args[p].vmid \in VmIds
             /\ VmKind(args[p].vmid) = args[p].vm_type
             /\ vms[args[p].vmid] = "stopped" )
           => /\ pc'[p] = "done"
              /\ result'[p].success
              /\ result'[p].data.status = "stopped"
              /\ result'[p].message.text = "{} is already stopped"
              /\ result'[p].message.s = (IF args[p].vm_type = "qemu" THEN "QEMU" ELSE "LXC")
              /\ calls'[p].stop_post = 0
              /\ calls'[p].shutdown_post = 0
              /\ vms' = vms
    ]_vars

\* C17's case: a stop of a Hetzner server that is off and a shutdown_vm of a
\* stopped lxc guest have each returned the no-op.
C17_Witness ==
    /\ \E p \in Procs :
        /\ Returned_(p, "stop") /\ result[p].success
        /\ servers[args[p].server_id] = "off"
        /\ result[p].data.message.text = "Server is already stopped"
        /\ calls[p].shutdown = 0
    /\ \E p \in Procs :
        /\ Returned_(p, "shutdown_vm") /\ result[p].success
        /\ args[p].vm_type = "lxc"
        /\ vms[args[p].vmid] = "stopped"
        /\ "message" \in DOMAIN result[p]
        /\ result[p].message.text = "{} is already stopped"
        /\ calls[p].shutdown_post = 0

\* What C18 says of a step of p inside wait_for_snapshot: a result comes only
\* after a poll, a timeout failure only after a poll that read `creating`
\* (each such poll is followed by one sleep), and the first step on a snapshot
\* that is available, the provider answering, is the success.
PollsBeforeResult(p) ==
    WaitSteps(p)
    => /\ pc'[p] = "done" => calls'[p].get_image >= 1
       /\ (pc'[p] = "done" /\ "error" \in DOMAIN result'[p]
             /\ result'[p].error.text = "Snapshot creation timed out after {} seconds")
          => /\ calls'[p].get_image >= 1
             /\ elapsed'[p] >= PollInterval
       /\ ( /\ calls[p].get_image = 0
            /\ faults' = faults
            /\ StatusOf(images, args[p].snapshot_id) = "available" )
          => /\ pc'[p] = "done"
             /\ result'[p].success

\* C18 as claimed: wait_for_snapshot polls at least once before any result,
\* for every timeout, 0 and negative ones included.
C18_PollsBeforeAnyResult ==
    [][\A p \in Procs : PollsBeforeResult(p)]_vars

\* C18 amended: the same for every timeout greater than 0; with a timeout of
\* 0 or less wait_for_snapshot returns the timeout failure at once, without a
\* poll, whatever the snapshot's status.
C18_PollsBeforeResultGivenPositiveTimeout ==
    [][\A p \in Procs :
        /\ (WaitSteps(p) /\ args[p].timeout > 0) => PollsBeforeResult(p)
        /\ (WaitSteps(p) /\ args[p].timeout <= 0)
           => /\ pc'[p] = "done"
              /\ ~result'[p].success
              /\ result'[p].error.text = "Snapshot creation timed out after {} seconds"
              /\ calls'[p].get_image = 0
    ]_vars

\* C18's case: a wait with a positive timeout on a snapshot that was
\* available from its first poll has returned the success after one poll.
C18_Witness ==
    \E p \in Procs :
        /\ Returned_(p, "wait_snapshot")
        /\ args[p].timeout > 0
        /\ result[p].success
        /\ calls[p].get_image = 1
        /\ elapsed[p] = 0
        /\ StatusOf(images, args[p].snapshot_id) = "available"

=============================================================================
